---- MODULE Spec2Model ----
(***************************************************************************)
(* A model of tagore's draw() (src/src/tagore/main.py): one pass over the  *)
(* lines of a BED-like input that writes an SVG document.                  *)
(*                                                                         *)
(* Numbers.  Drawing coordinates are exact fixed-point integers in units   *)
(* of 1/10000 of a drawing unit (128.6 is 1286000).  A feature size is an  *)
(* integer number of quarters (1.0 is 4, 0.5 is 2, 2.0 is 8).  A quotient  *)
(* by a chromosome length is kept as an exact fraction [num, den].  The    *)
(* model computes over exact rationals; IEEE rounding is not modelled.     *)
(***************************************************************************)
EXTENDS Integers, Sequences, FiniteSets, TLC

\* Longest multi-line input file explored.
MaxLines == 3

(***************************************************************************)
(* Reference tables                                                        *)
(***************************************************************************)
Geo(cx, cy, ht, width) == [cx |-> cx, cy |-> cy, ht |-> ht, width |-> width]

COORDINATES ==
    [c \in {"1","2","3","4","5","6","7","8","9","10","11","12","13","14","15",
            "16","17","18","19","20","21","22","X","Y"} |->
     CASE c = "1"  -> Geo(1286000,  15000,    16545000, 1186000)
       [] c = "2"  -> Geo(3014000,  436000,   16124000, 1186000)
       [] c = "3"  -> Geo(4776000,  3414000,  13147000, 1186000)
       [] c = "4"  -> Geo(6556000,  5179000,  11381000, 1186000)
       [] c = "5"  -> Geo(8354000,  4610000,  11951000, 1186000)
       [] c = "6"  -> Geo(10124000, 5242000,  11318000, 1186000)
       [] c = "7"  -> Geo(11982000, 6085000,  10475000, 1186000)
       [] c = "8"  -> Geo(13729000, 6928000,  9632000,  1186000)
       [] c = "9"  -> Geo(15545000, 7244000,  9316000,  1186000)
       [] c = "10" -> Geo(17338000, 7666000,  8894000,  1186000)
       [] c = "11" -> Geo(19115000, 7666000,  8894000,  1186000)
       [] c = "12" -> Geo(20956000, 7697000,  8863000,  1186000)
       [] c = "13" -> Geo(1293000,  20688000, 7661000,  1186000)
       [] c = "14" -> Geo(3016000,  21215000, 7134000,  1186000)
       [] c = "15" -> Geo(4775000,  21531000, 6818000,  1186000)
       [] c = "16" -> Geo(6567000,  22322000, 6028000,  1186000)
       [] c = "17" -> Geo(8412000,  22907000, 5443000,  1186000)
       [] c = "18" -> Geo(10157000, 23139000, 5211000,  1186000)
       [] c = "19" -> Geo(11995000, 24372000, 3978000,  1186000)
       [] c = "20" -> Geo(13744000, 24161000, 4189000,  1186000)
       [] c = "21" -> Geo(15530000, 25109000, 3241000,  1186000)
       [] c = "22" -> Geo(17369000, 24898000, 3451000,  1186000)
       [] c = "X"  -> Geo(19157000, 17992100, 10354000, 1186000)
       [] c = "Y"  -> Geo(21209000, 24516000, 3827000,  1186000)]

CHROM_SIZES ==
    [b \in {"hg37", "hg38"} |->
     [c \in DOMAIN COORDINATES |->
      IF b = "hg37"
      THEN CASE c = "1"  -> 249250621 [] c = "2"  -> 243199373
             [] c = "3"  -> 198022430 [] c = "4"  -> 191154276
             [] c = "5"  -> 180915260 [] c = "6"  -> 171115067
             [] c = "7"  -> 159138663 [] c = "8"  -> 146364022
             [] c = "9"  -> 141213431 [] c = "10" -> 135534747
             [] c = "11" -> 135006516 [] c = "12" -> 133851895
             [] c = "13" -> 115169878 [] c = "14" -> 107349540
             [] c = "15" -> 102531392 [] c = "16" -> 90354753
             [] c = "17" -> 81195210  [] c = "18" -> 78077248
             [] c = "19" -> 59128983  [] c = "20" -> 63025520
             [] c = "21" -> 48129895  [] c = "22" -> 51304566
             [] c = "X"  -> 155270560 [] c = "Y"  -> 59373566
      ELSE CASE c = "1"  -> 248956422 [] c = "2"  -> 242193529
             [] c = "3"  -> 198295559 [] c = "4"  -> 190214555
             [] c = "5"  -> 181538259 [] c = "6"  -> 170805979
             [] c = "7"  -> 159345973 [] c = "8"  -> 145138636
             [] c = "9"  -> 138394717 [] c = "10" -> 133797422
             [] c = "11" -> 135086622 [] c = "12" -> 133275309
             [] c = "13" -> 114364328 [] c = "14" -> 107043718
             [] c = "15" -> 101991189 [] c = "16" -> 90338345
             [] c = "17" -> 83257441  [] c = "18" -> 80373285
             [] c = "19" -> 58617616  [] c = "20" -> 64444167
             [] c = "21" -> 46709983  [] c = "22" -> 50818468
             [] c = "X"  -> 156040895 [] c = "Y"  -> 57227415]]

(***************************************************************************)
(* The namespace handed to draw                                            *)
(***************************************************************************)
\* What parse_arguments() returns: the five options it declares.  It
\* declares no "build" option, so the namespace has no such attribute.
parse_arguments ==
    [input |-> "in.bed", prefix |-> "out", oformat |-> "png",
     force |-> FALSE, verbose |-> FALSE]

\* The same namespace with a build attribute, as a caller of draw() other
\* than run() may supply: a supported build, or a name that is no key of
\* CHROM_SIZES.
WithBuild(b, v) ==
    [input |-> "in.bed", prefix |-> "out", oformat |-> "png",
     force |-> FALSE, verbose |-> v, build |-> b]

Namespaces ==
    {parse_arguments, WithBuild("hg38", TRUE), WithBuild("hg37", FALSE),
     WithBuild("hg19", FALSE)}

(***************************************************************************)
(* Input lines                                                             *)
(*                                                                         *)
(* A line is what startswith("#") and rstrip().split("\t") see of it:      *)
(* whether it is a comment, its number of tab-separated columns, and the   *)
(* seven columns when it has them.  chrm is a sequence of name tokens      *)
(* (<<"chr", "1">> is "chr1"); col is a sequence of characters; numeric    *)
(* says whether int() and float() accept the five numeric columns.         *)
(***************************************************************************)
Rec(chrm, feature, size, col, chrcopy) ==
    [comment |-> FALSE, ncols |-> 7, numeric |-> TRUE, chrm |-> chrm,
     start |-> 10, stop |-> 20, feature |-> feature, size |-> size,
     col |-> col, chrcopy |-> chrcopy]

Red == <<"#", "F", "F", "0", "0", "0", "0">>
ShortRed == <<"#", "F", "0", "0">>
Colours == {Red, ShortRed, <<"r", "e", "d">>}

ChromNames ==
    {<<c>> : c \in DOMAIN COORDINATES}
    \cup {<<"chr", "1">>, <<"chr", "X">>, <<"7", "chr">>, <<"chr">>,
          <<"chr", "Un">>, <<"MT">>}

Features == {0, 1, 2, 3, 4, -1}
Copies == {0, 1, 2, 3}
Sizes == {-2, 0, 2, 4, 8}

Records ==
    {Rec(c, f, s, k, y) : c \in ChromNames, f \in Features, s \in Sizes,
                          k \in {Red, ShortRed}, y \in {1, 2, 3}}
    \cup {Rec(<<"1">>, f, 4, k, y) : f \in Features, k \in Colours, y \in Copies}

Commented(l) == [l EXCEPT !.comment = TRUE]
Columns(l, n) == [l EXCEPT !.ncols = n]
NonNumeric(l) == [l EXCEPT !.numeric = FALSE]

CoreRecords ==
    {Rec(<<"1">>, 0, 4, Red, 1),          \* rectangle, copy 1
     Rec(<<"chr", "X">>, 1, 2, Red, 2),   \* circle, copy 2, half size
     Rec(<<"1">>, 2, 4, Red, 1),          \* triangle, copy 1
     Rec(<<"chr", "X">>, 2, 2, ShortRed, 2), \* triangle, copy 2, bad colour
     Rec(<<"1">>, 3, 4, Red, 2),          \* line, copy 2
     Rec(<<"1">>, 0, 8, Red, 2),          \* rectangle, size 2.0
     Rec(<<"1">>, 0, 4, Red, 3),          \* copy 3
     Rec(<<"1">>, 4, 4, Red, 1),          \* shape kind 4
     Rec(<<"chr", "Un">>, 0, 4, Red, 1),  \* unknown chromosome
     Rec(<<"chr", "Un">>, 2, 4, Red, 3)}  \* unknown chromosome, copy 3

CoreLines ==
    CoreRecords
    \cup {Commented(Rec(<<"1">>, 0, 4, Red, 1)),
          Columns(Rec(<<"1">>, 0, 4, Red, 1), 6),
          NonNumeric(Rec(<<"1">>, 0, 4, Red, 1))}

AllLines ==
    Records
    \cup {Commented(l) : l \in CoreRecords}
    \cup {Columns(l, n) : l \in CoreRecords, n \in {1, 6, 8}}
    \cup {NonNumeric(l) : l \in CoreRecords}

\* The input files explored: every one-line file over AllLines, and every
\* file of up to MaxLines lines over CoreLines.
Files ==
    {<<l>> : l \in AllLines}
    \cup UNION {[1..n -> CoreLines] : n \in 0..MaxLines}


(***************************************************************************)
(* State                                                                   *)
(***************************************************************************)
VARIABLES
    parsed_args,  \* the namespace draw() was called with
    input,        \* the lines of the input file
    pos,          \* index of the next line input_fh yields
    pc,           \* where draw() is: "start", "loop", "done", "exit"
                  \* (sys.exit), or the name of the exception that ended it
    svg_fh,       \* the output file: "none" (not created), "open", "closed"
    svg,          \* what has been written to the output file, in order
    polygons,     \* the triangles held back until the footer is written
    line_num,     \* the counter the diagnostics print (0: not yet bound)
    stdout        \* the diagnostics printed, in order

vars == <<parsed_args, input, pos, pc, svg_fh, svg, polygons, line_num, stdout>>

(***************************************************************************)
(* Validation helpers                                                      *)
(***************************************************************************)
\* chrm.replace("chr", ""): every "chr" token is removed, wherever it is.
StripChr(chrm) ==
    LET s == SelectSeq(chrm, LAMBDA t : t # "chr")
    IN  IF Len(s) = 0 THEN "" ELSE s[1]

\* The condition of `if 0 > size > 1`, a chained comparison: 0 > size and
\* size > 1 (1.0 is 4 quarters).
SizeUnclear(size) == 0 > size /\ size > 4

\* re.match("^#.{6}", col): a "#" and six more characters (none in the
\* model is a newline); anything may follow.
ColourClear(col) == Len(col) >= 7 /\ col[1] = "#"

Black == <<"#", "0", "0", "0", "0", "0", "0">>

\* Lines 168-179: the size and colour a record goes on with, and the
\* diagnostics printed on the way.
NormSize(l) == IF SizeUnclear(l.size) THEN 4 ELSE l.size
NormCol(l) == IF ColourClear(l.col) THEN l.col ELSE Black
NormMsgs(l, n) ==
    (IF SizeUnclear(l.size)
     THEN <<[msg |-> "size unclear", size |-> l.size, line |-> n]>> ELSE <<>>)
    \o (IF ColourClear(l.col)
        THEN <<>> ELSE <<[msg |-> "colour unclear", col |-> l.col, line |-> n]>>)

\* The exception the table lookups of a shape branch raise, in evaluation
\* order: COORDINATES[chrm], then parsed_args.build, then
\* CHROM_SIZES[build], then [chrm]; "none" when all succeed.
LookupError_build_first(args, chrm) ==
    IF "build" \notin DOMAIN args THEN "AttributeError"
    ELSE IF chrm \notin DOMAIN COORDINATES THEN "KeyError"
    ELSE IF args.build \notin DOMAIN CHROM_SIZES THEN "KeyError"
    ELSE IF chrm \notin DOMAIN CHROM_SIZES[args.build] THEN "KeyError"
    ELSE "none"

LookupError(args, chrm) ==
    IF chrm \notin DOMAIN COORDINATES THEN "KeyError"
    ELSE IF "build" \notin DOMAIN args THEN "AttributeError"
    ELSE IF args.build \notin DOMAIN CHROM_SIZES THEN "KeyError"
    ELSE IF chrm \notin DOMAIN CHROM_SIZES[args.build] THEN "KeyError"
    ELSE "none"

(***************************************************************************)
(* Shape builders (chrm is the stripped name, size and col are normalised) *)
(***************************************************************************)
\* position * COORDINATES[chrm]["ht"] / CHROM_SIZES[build][chrm]
Scaled(args, chrm, position) ==
    [num |-> position * COORDINATES[chrm].ht, den |-> CHROM_SIZES[args.build][chrm]]

\* (a + b) / 2 of two fractions of one denominator
Mid(a, b) == [num |-> a.num + b.num, den |-> 2 * a.den]

RectShape_right_of_centre(args, chrm, start, stop, size, col, chrcopy) ==
    LET g == COORDINATES[chrm]
        feat_start == Scaled(args, chrm, start)
        feat_end == Scaled(args, chrm, stop)
        width == (g.width * size) \div 8
    IN  [tag |-> "rect", x |-> g.cx,
         y |-> [whole |-> g.cy, frac |-> feat_start], fill |-> col,
         width |-> width,
         height |-> [num |-> feat_end.num - feat_start.num, den |-> feat_end.den]]

RectShape(args, chrm, start, stop, size, col, chrcopy) ==
    LET g == COORDINATES[chrm]
        feat_start == Scaled(args, chrm, start)
        feat_end == Scaled(args, chrm, stop)
        width == (g.width * size) \div 8
        x_pos == IF chrcopy = 1 THEN g.cx - width ELSE g.cx
    IN  [tag |-> "rect", x |-> x_pos,
         y |-> [whole |-> g.cy, frac |-> feat_start], fill |-> col,
         width |-> width,
         height |-> [num |-> feat_end.num - feat_start.num, den |-> feat_end.den]]

CircleShape(args, chrm, start, stop, size, col, chrcopy) ==
    LET g == COORDINATES[chrm]
        feat_start == Scaled(args, chrm, start)
        feat_end == Scaled(args, chrm, stop)
        radius == (g.width * size) \div 16
        x_pos == IF chrcopy = 1 THEN g.cx - g.width \div 4 ELSE g.cx + g.width \div 4
    IN  [tag |-> "circle", fill |-> col, cx |-> x_pos,
         cy |-> [whole |-> g.cy, frac |-> Mid(feat_start, feat_end)],
         r |-> radius]

PolygonShape(args, chrm, start, stop, size, col, chrcopy) ==
    LET g == COORDINATES[chrm]
        feat_start == Scaled(args, chrm, start)
        feat_end == Scaled(args, chrm, stop)
        x_pos == IF chrcopy = 1 THEN g.cx - g.width \div 2 ELSE g.cx + g.width \div 2
        sx_pos == IF chrcopy = 1 THEN (382000 * size) \div 4
                                 ELSE (-382000 * size) \div 4
        sy_pos == (215000 * size) \div 4
        mid == Mid(feat_start, feat_end)
    IN  [tag |-> "polygon", fill |-> col,
         points |-> << <<x_pos - sx_pos, [whole |-> g.cy - sy_pos, frac |-> mid]>>,
                       <<x_pos,          [whole |-> g.cy,          frac |-> mid]>>,
                       <<x_pos - sx_pos, [whole |-> g.cy + sy_pos, frac |-> mid]>> >>]

LineShape(args, chrm, start, stop, size, col, chrcopy) ==
    LET g == COORDINATES[chrm]
        y_pos1 == Scaled(args, chrm, start)
        y_pos2 == Scaled(args, chrm, stop)
        y_pos == [whole |-> g.cy, frac |-> Mid(y_pos1, y_pos2)]
    IN  IF chrcopy = 1
        THEN [tag |-> "line", stroke |-> col, x1 |-> g.cx - g.width \div 2,
              y1 |-> y_pos, x2 |-> g.cx, y2 |-> y_pos]
        ELSE [tag |-> "line", stroke |-> col, x1 |-> g.cx,
              y1 |-> y_pos, x2 |-> g.cx + g.width \div 2, y2 |-> y_pos]

\* The shape lines 188-267 build from a record.
Shape(args, l) ==
    LET c == StripChr(l.chrm)
        s == NormSize(l)
        k == NormCol(l)
    IN  CASE l.feature = 0 -> RectShape(args, c, l.start, l.stop, s, k, l.chrcopy)
          [] l.feature = 1 -> CircleShape(args, c, l.start, l.stop, s, k, l.chrcopy)
          [] l.feature = 2 -> PolygonShape(args, c, l.start, l.stop, s, k, l.chrcopy)
          [] l.feature = 3 -> LineShape(args, c, l.start, l.stop, s, k, l.chrcopy)


(***************************************************************************)
(* draw()                                                                  *)
(***************************************************************************)
Init ==
    /\ parsed_args \in Namespaces
    /\ input \in Files
    /\ pos = 1
    /\ pc = "start"
    /\ svg_fh = "none"
    /\ svg = <<>>
    /\ polygons = <<>>
    /\ line_num = 0
    /\ stdout = <<>>

\* Lines 141-145: the input file cannot be opened.
OpenInputError ==
    /\ pc = "start"
    /\ pc' = "IOError"
    /\ stdout' = Append(stdout, [msg |-> "Error opening input file!"])
    /\ UNCHANGED <<parsed_args, input, pos, svg_fh, svg, polygons, line_num>>

\* Lines 146-152: the output file cannot be opened or written.
OpenOutputError ==
    /\ pc = "start"
    /\ pc' = "IOError"
    /\ stdout' = Append(stdout, [msg |-> "Error opening output file!"])
    /\ UNCHANGED <<parsed_args, input, pos, svg_fh, svg, polygons, line_num>>

\* Lines 141-153: both files open, the header is written, line_num = 1.
Open ==
    /\ pc = "start"
    /\ pc' = "loop"
    /\ svg_fh' = "open"
    /\ svg' = <<[tag |-> "svg_header"]>>
    /\ line_num' = 1
    /\ UNCHANGED <<parsed_args, input, pos, polygons, stdout>>

AtLine == pc = "loop" /\ pos <= Len(input)
Entry == input[pos]
\* A line that reaches the copy check of line 180.
AtRecord == AtLine /\ ~Entry.comment /\ Entry.ncols = 7 /\ Entry.numeric

\* Lines 155-156.
Comment_counted ==
    /\ AtLine /\ Entry.comment
    /\ pos' = pos + 1
    /\ line_num' = line_num + 1
    /\ UNCHANGED <<parsed_args, input, pc, svg_fh, svg, polygons, stdout>>

Comment ==
    /\ AtLine /\ Entry.comment
    /\ pos' = pos + 1
    /\ UNCHANGED <<parsed_args, input, pc, svg_fh, svg, polygons, line_num, stdout>>

\* Lines 157-160: sys.exit(); the open output file keeps what was written.
WrongColumns ==
    /\ AtLine /\ ~Entry.comment /\ Entry.ncols # 7
    /\ stdout' = Append(stdout, [msg |-> "does not have 7 columns", line |-> line_num])
    /\ pc' = "exit"
    /\ UNCHANGED <<parsed_args, input, pos, svg_fh, svg, polygons, line_num>>

\* Lines 163-167: int() or float() rejects a column.
ParseError ==
    /\ AtLine /\ ~Entry.comment /\ Entry.ncols = 7 /\ ~Entry.numeric
    /\ pc' = "ValueError"
    /\ UNCHANGED <<parsed_args, input, pos, svg_fh, svg, polygons, line_num, stdout>>

\* Lines 168-186 for a copy that is neither 1 nor 2.
SkipCopy_exits ==
    /\ AtRecord /\ Entry.chrcopy \notin {1, 2}
    /\ stdout' = stdout \o NormMsgs(Entry, line_num)
                 \o <<[msg |-> "copy unclear", chrcopy |-> Entry.chrcopy,
                      line |-> line_num]>>
    /\ pc' = "exit"
    /\ UNCHANGED <<parsed_args, input, pos, svg_fh, svg, polygons, line_num>>

SkipCopy_uncounted ==
    /\ AtRecord /\ Entry.chrcopy \notin {1, 2}
    /\ stdout' = stdout \o NormMsgs(Entry, line_num)
                 \o <<[msg |-> "copy unclear", chrcopy |-> Entry.chrcopy,
                      line |-> line_num]>>
    /\ pos' = pos + 1
    /\ UNCHANGED <<parsed_args, input, pc, svg_fh, svg, polygons, line_num>>

SkipCopy ==
    /\ AtRecord /\ Entry.chrcopy \notin {1, 2}
    /\ stdout' = stdout \o NormMsgs(Entry, line_num)
                 \o <<[msg |-> "copy unclear", chrcopy |-> Entry.chrcopy,
                      line |-> line_num]>>
    /\ line_num' = line_num + 1
    /\ pos' = pos + 1
    /\ UNCHANGED <<parsed_args, input, pc, svg_fh, svg, polygons>>

\* Lines 168-179, 187 and a branch that writes its shape to svg_fh at
\* once, unless a lookup raises before anything is written.
WriteShape ==
    /\ stdout' = stdout \o NormMsgs(Entry, line_num)
    /\ line_num' = line_num + 1
    /\ LET err == LookupError(parsed_args, StripChr(Entry.chrm))
       IN  IF err = "none"
           THEN /\ svg' = Append(svg, Shape(parsed_args, Entry))
                /\ pos' = pos + 1
                /\ pc' = pc
           ELSE /\ pc' = err
                /\ UNCHANGED <<svg, pos>>
    /\ UNCHANGED <<parsed_args, input, svg_fh, polygons>>

\* Lines 188-206.
Rectangle ==
    /\ AtRecord /\ Entry.chrcopy \in {1, 2} /\ Entry.feature = 0
    /\ WriteShape

\* Lines 207-224.
Circle ==
    /\ AtRecord /\ Entry.chrcopy \in {1, 2} /\ Entry.feature = 1
    /\ WriteShape

\* Lines 245-267.
Line ==
    /\ AtRecord /\ Entry.chrcopy \in {1, 2} /\ Entry.feature = 3
    /\ WriteShape

\* Lines 168-179, 187, 225-244: a triangle is appended to polygons.
Triangle_written_at_once ==
    /\ AtRecord /\ Entry.chrcopy \in {1, 2} /\ Entry.feature = 2
    /\ stdout' = stdout \o NormMsgs(Entry, line_num)
    /\ line_num' = line_num + 1
    /\ LET err == LookupError(parsed_args, StripChr(Entry.chrm))
       IN  IF err = "none"
           THEN /\ svg' = Append(svg, Shape(parsed_args, Entry))
                /\ pos' = pos + 1
                /\ pc' = pc
           ELSE /\ pc' = err
                /\ UNCHANGED <<svg, pos>>
    /\ UNCHANGED <<parsed_args, input, svg_fh, polygons>>

Triangle ==
    /\ AtRecord /\ Entry.chrcopy \in {1, 2} /\ Entry.feature = 2
    /\ stdout' = stdout \o NormMsgs(Entry, line_num)
    /\ line_num' = line_num + 1
    /\ LET err == LookupError(parsed_args, StripChr(Entry.chrm))
       IN  IF err = "none"
           THEN /\ polygons' = Append(polygons, Shape(parsed_args, Entry))
                /\ pos' = pos + 1
                /\ pc' = pc
           ELSE /\ pc' = err
                /\ UNCHANGED <<polygons, pos>>
    /\ UNCHANGED <<parsed_args, input, svg_fh, svg>>

\* Lines 168-179, 187, 268-272: a shape kind other than 0, 1, 2, 3.
SkipFeature ==
    /\ AtRecord /\ Entry.chrcopy \in {1, 2} /\ Entry.feature \notin {0, 1, 2, 3}
    /\ stdout' = stdout \o NormMsgs(Entry, line_num)
                 \o <<[msg |-> "feature type unclear", feature |-> Entry.feature]>>
    /\ line_num' = line_num + 1
    /\ pos' = pos + 1
    /\ UNCHANGED <<parsed_args, input, pc, svg_fh, svg, polygons>>

\* Lines 273-277: the end of the input.
Finish_polygons_first ==
    /\ pc = "loop" /\ pos > Len(input)
    /\ svg' = svg \o polygons \o <<[tag |-> "svg_footer"]>> \o <<[tag |-> "</svg>"]>>
    /\ svg_fh' = "closed"
    /\ stdout' = IF parsed_args.verbose
                 THEN Append(stdout, [msg |-> "Successfully created SVG"])
                 ELSE stdout
    /\ pc' = "done"
    /\ UNCHANGED <<parsed_args, input, pos, polygons, line_num>>

Finish ==
    /\ pc = "loop" /\ pos > Len(input)
    /\ svg' = svg \o <<[tag |-> "svg_footer"]>> \o polygons \o <<[tag |-> "</svg>"]>>
    /\ svg_fh' = "closed"
    /\ stdout' = IF parsed_args.verbose
                 THEN Append(stdout, [msg |-> "Successfully created SVG"])
                 ELSE stdout
    /\ pc' = "done"
    /\ UNCHANGED <<parsed_args, input, pos, polygons, line_num>>

Next ==
    \/ OpenInputError
    \/ OpenOutputError
    \/ Open
    \/ Comment
    \/ WrongColumns
    \/ ParseError
    \/ SkipCopy
    \/ Rectangle
    \/ Circle
    \/ Triangle
    \/ Line
    \/ SkipFeature
    \/ Finish

Spec == Init /\ [][Next]_vars


(***************************************************************************)
(* Vocabulary of the properties                                            *)
(***************************************************************************)
BaseTags == {"rect", "circle", "line"}

\* A line draw() turns into a shape when its lookups succeed.
Renders(l) ==
    /\ ~l.comment /\ l.ncols = 7 /\ l.numeric
    /\ l.chrcopy \in {1, 2} /\ l.feature \in {0, 1, 2, 3}

\* A record draw() skips: copy not 1 or 2, or shape kind not 0, 1, 2, 3.
Skipped(l) ==
    /\ ~l.comment /\ l.ncols = 7 /\ l.numeric
    /\ (l.chrcopy \notin {1, 2} \/ l.feature \notin {0, 1, 2, 3})

\* The shapes of the given kinds that the lines call for, in input order.
RECURSIVE ShapesOf(_, _, _)
ShapesOf(args, lines, kinds) ==
    IF lines = <<>> THEN <<>>
    ELSE (IF Renders(Head(lines)) /\ Head(lines).feature \in kinds
          THEN <<Shape(args, Head(lines))>> ELSE <<>>)
         \o ShapesOf(args, Tail(lines), kinds)

\* header, base shapes in input order, footer, triangles in input order,
\* closing tag.
Document(args, lines) ==
    <<[tag |-> "svg_header"]>> \o ShapesOf(args, lines, {0, 1, 3})
    \o <<[tag |-> "svg_footer"]>> \o ShapesOf(args, lines, {2})
    \o <<[tag |-> "</svg>"]>>

\* The number of non-comment lines among the first n lines.
RECURSIVE NonComments(_, _)
NonComments(lines, n) ==
    IF n = 0 THEN 0
    ELSE NonComments(lines, n - 1) + (IF lines[n].comment THEN 0 ELSE 1)

\* The chromosome name is no key of the geometry table, or no key of the
\* table of the selected build.
UnknownChromosome(args, l) ==
    \/ StripChr(l.chrm) \notin DOMAIN COORDINATES
    \/ /\ "build" \in DOMAIN args
       /\ \/ args.build \notin DOMAIN CHROM_SIZES
          \/ StripChr(l.chrm) \notin DOMAIN CHROM_SIZES[args.build]

Aborted == pc \in {"exit", "IOError", "ValueError", "KeyError", "AttributeError"}

(***************************************************************************)
(* C1                                                                      *)
(***************************************************************************)
\* C1: in the document draw writes, at every moment and whatever the order
\* of the input, no rectangle, circle or line comes after a triangle.
C1_TrianglesAfterBase ==
    \A i, j \in 1..Len(svg) :
        (i < j /\ svg[i].tag = "polygon") => svg[j].tag \notin BaseTags

\* A finished document whose input had a triangle record before a
\* rectangle, circle or line record, both of them drawn.
C1_Witness ==
    /\ pc = "done"
    /\ \E i, j \in 1..Len(input) :
          /\ i < j
          /\ Renders(input[i]) /\ input[i].feature = 2
          /\ Renders(input[j]) /\ input[j].feature \in {0, 1, 3}
    /\ \E i, j \in 1..Len(svg) :
          i < j /\ svg[i].tag \in BaseTags /\ svg[j].tag = "polygon"

(***************************************************************************)
(* C2                                                                      *)
(***************************************************************************)
\* C2: when draw has made a full pass, the file holds exactly the header,
\* the base shapes in input order, the footer, the triangles in input
\* order and the closing tag.
C2_DocumentLayout ==
    pc = "done" => svg = Document(parsed_args, input) /\ svg_fh = "closed"

\* A finished three-line run with two different base shapes and a triangle.
C2_Witness ==
    /\ pc = "done"
    /\ Len(ShapesOf(parsed_args, input, {2})) = 1
    /\ LET b == ShapesOf(parsed_args, input, {0, 1, 3})
       IN  Len(b) = 2 /\ b[1] # b[2]
    /\ Len(svg) = 6

(***************************************************************************)
(* C3                                                                      *)
(***************************************************************************)
\* C3: a non-comment line without 7 columns aborts the run and leaves no
\* output document, not even a partial one.
C3_NoDocumentOnAbort ==
    pc = "exit" => svg_fh = "none" /\ svg = <<>>

(***************************************************************************)
(* C4                                                                      *)
(***************************************************************************)
\* C4: a record with a copy other than 1 and 2, or a shape kind other than
\* 0..3, adds nothing to the file or to the held-back triangles and does
\* not stop the loop, which goes on to the next line; and a finished
\* document is the one the input without those records calls for.
C4_SkippedRecordIsInert ==
    /\ [][(AtRecord /\ Skipped(Entry)) =>
            /\ svg' = svg /\ polygons' = polygons /\ svg_fh' = svg_fh
            /\ pc' = "loop" /\ pos' = pos + 1]_vars
    /\ [](pc = "done" =>
            svg = Document(parsed_args, SelectSeq(input, LAMBDA l : ~Skipped(l))))

\* A finished run that skipped a record and drew a later one.
C4_Witness ==
    /\ pc = "done"
    /\ \E i, j \in 1..Len(input) :
          i < j /\ Skipped(input[i]) /\ Renders(input[j])
    /\ Len(svg) > 3

(***************************************************************************)
(* C5                                                                      *)
(***************************************************************************)
\* C5: a record whose size lies outside (0, 1] (1..4 quarters) gets a
\* diagnostic and size 1.0: the shape it yields is the shape of the same
\* record with size 1.0.
C5_SizeSubstituted ==
    [][(AtRecord /\ Renders(Entry) /\ Entry.size \notin 1..4
        /\ pos' = pos + 1) =>
          /\ svg' \o polygons' =
                svg \o polygons \o <<Shape(parsed_args, [Entry EXCEPT !.size = 4])>>
          /\ \E k \in 1..Len(stdout') : stdout'[k].msg = "size unclear"]_vars

(***************************************************************************)
(* C6                                                                      *)
(***************************************************************************)
\* C6, as claimed: a 7-column record with an unknown chromosome never
\* yields a shape and aborts the run there, whatever its copy and kind.
C6_UnknownChromosomeAlwaysFatal ==
    [][(AtRecord /\ UnknownChromosome(parsed_args, Entry)) =>
          svg' = svg /\ polygons' = polygons /\ Aborted']_vars

\* C6, amended: a 7-column record with an unknown chromosome never yields
\* a shape; the run aborts there with a KeyError when the copy is 1 or 2
\* and the kind is 0..3, and otherwise the record is skipped and the loop
\* goes on.
C6_UnknownChromosomeFatalWhenDrawn ==
    [][(AtRecord /\ UnknownChromosome(parsed_args, Entry)) =>
          /\ svg' = svg /\ polygons' = polygons
          /\ IF Renders(Entry)
             THEN pc' = "KeyError" /\ pos' = pos
             ELSE pc' = "loop" /\ pos' = pos + 1]_vars

\* A run a record with an unknown chromosome name has ended.
C6_Witness ==
    /\ pc = "KeyError"
    /\ pos <= Len(input)
    /\ StripChr(input[pos].chrm) \notin DOMAIN COORDINATES
    /\ Renders(input[pos])

(***************************************************************************)
(* C7                                                                      *)
(***************************************************************************)
\* C7: a comment line changes neither the line counter nor the file nor
\* the held-back triangles.
C7_CommentIsInert ==
    [][(AtLine /\ Entry.comment) =>
          /\ line_num' = line_num /\ svg' = svg /\ polygons' = polygons
          /\ stdout' = stdout]_vars

\* A comment line has been read, after a shape was written.
C7_Witness ==
    /\ pc = "loop"
    /\ pos > 2
    /\ input[pos - 1].comment
    /\ Renders(input[pos - 2])
    /\ line_num = 2

(***************************************************************************)
(* C8                                                                      *)
(***************************************************************************)
\* A rectangle record with copy 1 or 2 has just been drawn.
RectDrawn ==
    /\ pc = "loop" /\ pos > 1
    /\ Renders(input[pos - 1]) /\ input[pos - 1].feature = 0

NoFatalLine ==
    \A i \in 1..Len(input) :
        input[i].comment
        \/ /\ input[i].ncols = 7 /\ input[i].numeric
           /\ StripChr(input[i].chrm) \in DOMAIN COORDINATES

\* C9: called with what parse_arguments() returns, on an input without a
\* fatal line and with both files opened, draw ends only with a complete
\* document.
C9_CliRunCompletes ==
    (parsed_args = parse_arguments /\ NoFatalLine /\ pc \notin {"start", "loop", "IOError"})
        => /\ pc = "done"
           /\ svg[Len(svg)].tag = "</svg>"

(***************************************************************************)
(* C10                                                                     *)
(***************************************************************************)
\* C10: the counter is 1 when the loop starts and is always one more than
\* the number of non-comment lines gone through, drawn or skipped: the
\* k-th non-comment line is examined with the counter at k.
C10_CounterCountsRecords ==
    pc \in {"loop", "exit", "ValueError", "done"} =>
        line_num = 1 + NonComments(input, pos - 1)

\* A finished three-line run over a comment, a record skipped for its copy
\* and a record skipped for its kind.
C10_Witness ==
    /\ pc = "done"
    /\ line_num = 3
    /\ \E i \in 1..Len(input) : input[i].comment
    /\ \E i \in 1..Len(input) :
          Skipped(input[i]) /\ input[i].chrcopy \notin {1, 2}
    /\ \E i \in 1..Len(input) :
          Skipped(input[i]) /\ input[i].chrcopy \in {1, 2}

====
